---- MODULE Spec2Model ----
(***************************************************************************)
(* wtf-cli (src/src/main.rs): the interactive command-synthesis session,   *)
(* its confirm/edit/execute loop, the conversational window and the        *)
(* history log.                                                            *)
(*                                                                         *)
(* A string is a sequence of characters; a character is a one-element      *)
(* TLA+ string, the control characters being named below.                  *)
(***************************************************************************)
EXTENDS Integers, Sequences, FiniteSets, TLC

-----------------------------------------------------------------------------
(* Characters                                                              *)

ESC == "ESC"
NL == "\n"
TAB == "\t"
QUOTE == "\""
BSLASH == "\\"
BACKTICK == "BACKTICK"

\* char::is_whitespace, on the characters of the model's alphabet
IsWhitespace(c) == c \in {" ", NL, TAB}

\* char::is_ascii_alphabetic, on the characters of the model's alphabet
IsAsciiAlphabetic(c) ==
    c \in {"a", "b", "c", "d", "e", "f", "g", "h", "i", "j", "k", "l", "m",
           "n", "o", "p", "q", "r", "s", "t", "u", "v", "w", "x", "y", "z",
           "A", "B", "C", "D", "E", "F", "G", "H", "I", "J", "K", "L", "M",
           "N", "O", "P", "Q", "R", "S", "T", "U", "V", "W", "X", "Y", "Z"}

\* char::to_lowercase for the upper-case letters the inputs of the model use
LowerChar(c) ==
    CASE c = "Y" -> "y" [] c = "E" -> "e" [] c = "S" -> "s" [] c = "N" -> "n"
      [] c = "O" -> "o" [] c = "X" -> "x" [] c = "I" -> "i" [] c = "T" -> "t"
      [] c = "Q" -> "q" [] c = "U" -> "u" [] c = "H" -> "h" [] c = "L" -> "l"
      [] c = "P" -> "p" [] c = "C" -> "c" [] c = "A" -> "a" [] c = "R" -> "r"
      [] c = "D" -> "d"
      [] OTHER -> c

\* a faulty variant of ToLowercase: the letters keep their case
ToLowercase_KeepsCase(s) == s

\* str::to_lowercase
ToLowercase(s) == [i \in 1..Len(s) |-> LowerChar(s[i])]

RECURSIVE TrimStart(_)
\* str::trim_start
TrimStart(s) ==
    IF s = <<>> THEN s
    ELSE IF IsWhitespace(Head(s)) THEN TrimStart(Tail(s))
    ELSE s

RECURSIVE TrimEnd(_)
\* str::trim_end
TrimEnd(s) ==
    IF s = <<>> THEN s
    ELSE IF IsWhitespace(s[Len(s)]) THEN TrimEnd(SubSeq(s, 1, Len(s) - 1))
    ELSE s

\* str::trim
Trim(s) == TrimEnd(TrimStart(s))

\* str::starts_with
StartsWith(s, p) == Len(s) >= Len(p) /\ SubSeq(s, 1, Len(p)) = p

\* str::ends_with
EndsWith(s, p) == Len(s) >= Len(p) /\ SubSeq(s, Len(s) - Len(p) + 1, Len(s)) = p

\* str::contains
Contains(s, p) == \E i \in 1..(Len(s) - Len(p) + 1) : SubSeq(s, i, i + Len(p) - 1) = p

\* the last n elements of a sequence (all of it when it is shorter)
LastN(s, n) == IF Len(s) > n THEN SubSeq(s, Len(s) - n + 1, Len(s)) ELSE s

-----------------------------------------------------------------------------
(* Output sanitizer                                                        *)

RECURSIVE strip_ansi_codes_KeepsBareEsc(_), SkipEscapeSequence_KeepsBareEsc(_)
\* a faulty variant of strip_ansi_codes: an ESC that no '[' follows is kept
strip_ansi_codes_KeepsBareEsc(text) ==
    IF text = <<>> THEN <<>>
    ELSE IF Head(text) = ESC /\ Len(text) >= 2 /\ text[2] = "["
         THEN SkipEscapeSequence_KeepsBareEsc(SubSeq(text, 3, Len(text)))
         ELSE <<Head(text)>> \o strip_ansi_codes_KeepsBareEsc(Tail(text))

\* the inner loop of that variant
SkipEscapeSequence_KeepsBareEsc(text) ==
    IF text = <<>> THEN <<>>
    ELSE IF IsAsciiAlphabetic(Head(text)) \/ Head(text) = "m"
         THEN strip_ansi_codes_KeepsBareEsc(Tail(text))
         ELSE SkipEscapeSequence_KeepsBareEsc(Tail(text))

RECURSIVE strip_ansi_codes(_), SkipEscapeSequence(_)
\* strip_ansi_codes: an ESC is dropped; when '[' follows it, everything up to
\* and including the next ASCII letter is dropped with it
strip_ansi_codes(text) ==
    IF text = <<>> THEN <<>>
    ELSE IF Head(text) = ESC
         THEN IF Len(text) >= 2 /\ text[2] = "["
              THEN SkipEscapeSequence(SubSeq(text, 3, Len(text)))
              ELSE strip_ansi_codes(Tail(text))
         ELSE <<Head(text)>> \o strip_ansi_codes(Tail(text))

\* the inner while let Some(&next_ch) = chars.peek() of strip_ansi_codes
SkipEscapeSequence(text) ==
    IF text = <<>> THEN <<>>
    ELSE IF IsAsciiAlphabetic(Head(text)) \/ Head(text) = "m"
         THEN strip_ansi_codes(Tail(text))
         ELSE SkipEscapeSequence(Tail(text))

-----------------------------------------------------------------------------
(* History entries and their one-line JSON form                            *)

K_TIMESTAMP == "\"timestamp\":"
K_PROMPT == "\"prompt\":"
K_COMMAND == "\"command\":"

DigitChars == <<"0", "1", "2", "3", "4", "5", "6", "7", "8", "9">>

RECURSIVE FormatInt(_)
\* the decimal digits serde_json writes for a non-negative i64
FormatInt(n) ==
    IF n < 10 THEN <<DigitChars[n + 1]>>
    ELSE FormatInt(n \div 10) \o <<DigitChars[(n % 10) + 1]>>

IsDigit(c) == \E d \in 1..10 : DigitChars[d] = c

DigitValue(c) == (CHOOSE d \in 1..10 : DigitChars[d] = c) - 1

\* serde_json's escaping of one character of a string
EscapeChar(c) ==
    CASE c = QUOTE -> <<BSLASH, QUOTE>>
      [] c = BSLASH -> <<BSLASH, BSLASH>>
      [] c = NL -> <<BSLASH, "n">>
      [] c = TAB -> <<BSLASH, "t">>
      [] c = ESC -> <<BSLASH, "u", "0", "0", "1", "b">>
      [] OTHER -> <<c>>

RECURSIVE EscapeJson(_)
\* serde_json's escaping of a string
EscapeJson(s) ==
    IF s = <<>> THEN <<>> ELSE EscapeChar(Head(s)) \o EscapeJson(Tail(s))

\* serde_json::to_string(&HistoryEntry): one line, fields in declaration order
ToJson(entry) ==
    <<"{", K_TIMESTAMP>> \o FormatInt(entry.timestamp)
      \o <<",", K_PROMPT, QUOTE>> \o EscapeJson(entry.prompt)
      \o <<QUOTE, ",", K_COMMAND, QUOTE>> \o EscapeJson(entry.command)
      \o <<QUOTE, "}">>

ParseFail == [ok |-> FALSE]

RECURSIVE ParseInt(_, _, _)
\* the digits of a JSON number: [ok, val, rest]; seen = a digit has been read
ParseInt(s, acc, seen) ==
    IF s # <<>> /\ IsDigit(Head(s))
    THEN ParseInt(Tail(s), acc * 10 + DigitValue(Head(s)), TRUE)
    ELSE IF seen THEN [ok |-> TRUE, val |-> acc, rest |-> s] ELSE ParseFail

RECURSIVE ParseString(_, _)
\* a JSON string after its opening quote: [ok, val, rest]
ParseString(s, acc) ==
    IF s = <<>> THEN ParseFail
    ELSE IF Head(s) = QUOTE THEN [ok |-> TRUE, val |-> acc, rest |-> Tail(s)]
    ELSE IF Head(s) = BSLASH
         THEN IF Len(s) < 2 THEN ParseFail
              ELSE IF s[2] = QUOTE THEN ParseString(SubSeq(s, 3, Len(s)), Append(acc, QUOTE))
              ELSE IF s[2] = BSLASH THEN ParseString(SubSeq(s, 3, Len(s)), Append(acc, BSLASH))
              ELSE IF s[2] = "n" THEN ParseString(SubSeq(s, 3, Len(s)), Append(acc, NL))
              ELSE IF s[2] = "t" THEN ParseString(SubSeq(s, 3, Len(s)), Append(acc, TAB))
              ELSE IF s[2] = "u" /\ Len(s) >= 6 /\ SubSeq(s, 3, 6) = <<"0", "0", "1", "b">>
                   THEN ParseString(SubSeq(s, 7, Len(s)), Append(acc, ESC))
              ELSE ParseFail
    ELSE IF Head(s) \in {NL, TAB, ESC} THEN ParseFail
    ELSE ParseString(Tail(s), Append(acc, Head(s)))

\* serde_json::from_str::<HistoryEntry>(line): [ok, entry]
FromJson(line) ==
    IF ~StartsWith(line, <<"{", K_TIMESTAMP>>) THEN ParseFail
    ELSE LET ts == ParseInt(SubSeq(line, 3, Len(line)), 0, FALSE) IN
         IF ~ts.ok \/ ~StartsWith(ts.rest, <<",", K_PROMPT, QUOTE>>) THEN ParseFail
         ELSE LET pr == ParseString(SubSeq(ts.rest, 4, Len(ts.rest)), <<>>) IN
              IF ~pr.ok \/ ~StartsWith(pr.rest, <<",", K_COMMAND, QUOTE>>) THEN ParseFail
              ELSE LET cm == ParseString(SubSeq(pr.rest, 4, Len(pr.rest)), <<>>) IN
                   IF ~cm.ok \/ cm.rest # <<"}">> THEN ParseFail
                   ELSE [ok |-> TRUE,
                         entry |-> [timestamp |-> ts.val, prompt |-> pr.val,
                                    command |-> cm.val]]

-----------------------------------------------------------------------------
(* History store: the file ~/.wtf_history                                  *)

\* if lines.len() > 1000
HISTORY_CAP == 1000

\* let start = if entries.len() > 20 { entries.len() - 20 } else { 0 }
SHOW_LAST == 20

RECURSIVE SplitLines(_, _)
\* what str::lines reads back of one written line: the pieces between its
\* newline characters (cur = the piece being read)
SplitLines(s, cur) ==
    IF s = <<>> THEN <<cur>>
    ELSE IF Head(s) = NL THEN <<cur>> \o SplitLines(Tail(s), <<>>)
    ELSE SplitLines(Tail(s), Append(cur, Head(s)))

\* the line holds no newline character
OneLine(line) == \A i \in 1..Len(line) : line[i] # NL

RECURSIVE WriteLines(_)
\* for line in lines { writeln!(file, "{}", line)?; }, as the lines
\* content.lines() finds in the file afterwards
WriteLines(lines) ==
    IF \A i \in 1..Len(lines) : OneLine(lines[i]) THEN lines
    ELSE IF Len(lines) = 1 THEN SplitLines(lines[1], <<>>)
    ELSE LET half == Len(lines) \div 2 IN
         WriteLines(SubSeq(lines, 1, half))
           \o WriteLines(SubSeq(lines, half + 1, Len(lines)))

\* a faulty variant of NewEntry: the texts are stored as they came
NewEntry_Unsanitized(prompt, command, timestamp) ==
    [timestamp |-> timestamp, prompt |-> prompt, command |-> command]

\* the HistoryEntry append_to_history builds
NewEntry(prompt, command, timestamp) ==
    [timestamp |-> timestamp,
     prompt |-> Trim(strip_ansi_codes(prompt)),
     command |-> Trim(strip_ansi_codes(command))]

\* a faulty variant of Truncate: the newest lines are dropped, not the oldest
Truncate_DropsNewest(lines) ==
    IF Len(lines) > HISTORY_CAP THEN SubSeq(lines, 1, HISTORY_CAP) ELSE lines

\* lines.drain(0..remove_count) when lines.len() > 1000
Truncate(lines) ==
    IF Len(lines) > HISTORY_CAP
    THEN SubSeq(lines, Len(lines) - HISTORY_CAP + 1, Len(lines))
    ELSE lines

\* the lines append_to_history sets out to write: the old ones, the new one
\* pushed last, truncated to the cap
IntendedLines(exists, lines, prompt, command, timestamp) ==
    Truncate(Append(IF exists THEN lines ELSE <<>>,
                    ToJson(NewEntry(prompt, command, timestamp))))

NoFault == [kind |-> "none", k |-> 0]

\* the points at which the model lets the write-back loop fail: before the
\* first of the n lines and before the last
WriteFaultPoints(n) == {0, n - 1} \cap (0..(n - 1))

\* the ways one call of append_to_history can fail: fs::read_to_string
\* (only when the file exists), OpenOptions::open, and writeln! after k lines
AppendFaults(exists, lines) ==
    (IF exists THEN {[kind |-> "read", k |-> 0]} ELSE {})
      \cup {[kind |-> "open", k |-> 0]}
      \cup {[kind |-> "write", k |-> k] :
              k \in WriteFaultPoints(Len(Truncate(Append(IF exists THEN lines ELSE <<>>,
                                                         <<>>))))}

\* append_to_history(prompt, command): [ok, exists, lines], the file afterwards
append_to_history(home_set, exists, lines, prompt, command, timestamp, fault) ==
    LET intended == IntendedLines(exists, lines, prompt, command, timestamp) IN
    IF ~home_set THEN [ok |-> FALSE, exists |-> exists, lines |-> lines]
    ELSE IF fault.kind \in {"read", "open"}
         THEN [ok |-> FALSE, exists |-> exists, lines |-> lines]
    ELSE IF fault.kind = "write"
         THEN [ok |-> FALSE, exists |-> TRUE,
               lines |-> WriteLines(SubSeq(intended, 1, fault.k))]
    ELSE [ok |-> TRUE, exists |-> TRUE, lines |-> WriteLines(intended)]

\* if let Ok(entry) = serde_json::from_str::<HistoryEntry>(line)
ParsedOk(r) == r.ok

\* the loop of show_history over the lines: the entries of the lines that
\* parse, in file order
ParseEntries(lines) ==
    LET parsed == SelectSeq([i \in 1..Len(lines) |-> FromJson(lines[i])], ParsedOk)
    IN [i \in 1..Len(parsed) |-> parsed[i].entry]

\* a faulty variant of show_history: the oldest entries are printed
show_history_Oldest(exists, lines) ==
    IF ~exists THEN <<>>
    ELSE LET entries == ParseEntries(lines) IN
         IF Len(entries) > SHOW_LAST THEN SubSeq(entries, 1, SHOW_LAST) ELSE entries

\* show_history: the entries it prints (none for "No history found.")
show_history(exists, lines) ==
    IF ~exists THEN <<>> ELSE LastN(ParseEntries(lines), SHOW_LAST)

-----------------------------------------------------------------------------
(* parse_output and the code-fence stripping of its callers                *)

FENCE == <<BACKTICK, BACKTICK, BACKTICK>>
FENCE_BASH == FENCE \o <<"b", "a", "s", "h">>
FENCE_SH == FENCE \o <<"s", "h">>
SEPARATOR == <<"#", "#", "#">>

\* the index of the first occurrence of p in s, 0 when there is none
FindFirst(s, p) ==
    IF Contains(s, p)
    THEN CHOOSE i \in 1..(Len(s) - Len(p) + 1) :
            /\ SubSeq(s, i, i + Len(p) - 1) = p
            /\ \A j \in 1..(i - 1) : SubSeq(s, j, j + Len(p) - 1) # p
    ELSE 0

\* a faulty variant of parse_output: the text is split at the last separator
parse_output_SplitsOnLast(text) ==
    IF Contains(text, SEPARATOR)
    THEN LET i == CHOOSE k \in 1..(Len(text) - 2) :
                     /\ SubSeq(text, k, k + 2) = SEPARATOR
                     /\ \A j \in (k + 1)..(Len(text) - 2) : SubSeq(text, j, j + 2) # SEPARATOR
         IN [command |-> Trim(SubSeq(text, 1, i - 1)),
             has_explanation |-> TRUE,
             explanation |-> Trim(SubSeq(text, i + 3, Len(text)))]
    ELSE [command |-> Trim(text), has_explanation |-> FALSE, explanation |-> <<>>]

\* parse_output: [command, has_explanation, explanation]
parse_output(text) ==
    LET i == FindFirst(text, SEPARATOR) IN
    IF i > 0
    THEN [command |-> Trim(SubSeq(text, 1, i - 1)),
          has_explanation |-> TRUE,
          explanation |-> Trim(SubSeq(text, i + Len(SEPARATOR), Len(text)))]
    ELSE [command |-> Trim(text), has_explanation |-> FALSE, explanation |-> <<>>]

RECURSIVE TrimStartMatches(_, _)
\* str::trim_start_matches: the prefix is removed as often as it repeats
TrimStartMatches(s, p) ==
    IF StartsWith(s, p) THEN TrimStartMatches(SubSeq(s, Len(p) + 1, Len(s)), p) ELSE s

RECURSIVE TrimEndMatches(_, _)
\* str::trim_end_matches
TrimEndMatches(s, p) ==
    IF EndsWith(s, p) THEN TrimEndMatches(SubSeq(s, 1, Len(s) - Len(p)), p) ELSE s

\* .trim().trim_start_matches(FENCE_BASH).trim_start_matches(FENCE_SH)
\*  .trim_start_matches(FENCE).trim_end_matches(FENCE).trim()
StripFences(command) ==
    Trim(TrimEndMatches(
           TrimStartMatches(
             TrimStartMatches(TrimStartMatches(Trim(command), FENCE_BASH), FENCE_SH),
             FENCE),
           FENCE))

-----------------------------------------------------------------------------
(* Bounds and inputs                                                       *)

\* what one interactive session may consume: requests sent to the model,
\* edit prompts opened and failures injected (history write, stdin/readline
\* read, command launch) each count for one
MaxEvents == 5
\* the last value of the clock
MaxNow == 2
\* one-shot runs of the program that write or remove the history file, one
\* with an injected failure counting twice
MaxAppends == 4

\* a request typed with blanks around it and an escape sequence pasted in
REQ_DF == <<" ", ESC, "[", "0", "m", "d", "f", " ">>

\* the lines typed at the wtf> prompt
IdleLines ==
    {<<>>, <<" ">>, <<"E", "x", "i", "t">>, <<"q", "u", "i", "t">>,
     <<"c", "l", "e", "a", "r">>, <<"H", "E", "L", "P">>, REQ_DF}

RAW_LS == FENCE_SH \o <<NL, "l", "s", NL>> \o FENCE
RAW_DF == <<ESC, "[", "1", "m", "d", "f", " ">> \o SEPARATOR \o <<" ", "x">>
RAW_WC == <<"w", "c", NL>>

\* the texts the model returns for a new request
ModelTexts == {RAW_LS, RAW_DF}

\* the texts the model returns for an edit (FENCE sanitizes to the empty command)
EditTexts == {RAW_WC, FENCE}

\* the lines read at the confirm prompt (the empty one is end-of-input)
ConfirmLines ==
    {<<"y", NL>>, <<"Y", "E", "S", NL>>, <<"n", NL>>, <<"N", "o", NL>>, <<>>, <<NL>>,
     <<"e", NL>>, <<"E", "d", "i", "t", NL>>, <<"x", NL>>}

\* the lines read at the edit prompt
EditLines == {<<" ">>, <<"l", "s", " ", "/">>, <<"t", "o", "p">>}

\* what Command::output gives execute_command
ExecOutcomes == {"launch_failed", "exit_0", "exit_1"}

-----------------------------------------------------------------------------
(* State                                                                   *)

VARIABLES
    state,                 \* where the process is: "Idle", "AwaitingModel",
                           \* "Presenting", "Editing", "AwaitingEdit", "Committed",
                           \* "Errored", "Exited", "Failed"; "Cli" between one-shot runs;
                           \* "Start", "Ready", "Calling", "ConfigError" in the
                           \* runs that resolve a Config and call the provider
    home,                  \* HOME is set
    hist_exists,           \* ~/.wtf_history exists
    hist_lines,            \* its lines
    now,                   \* Utc::now().timestamp()
    input,                 \* the request of the turn
    final_command,         \* the pending command of the turn
    choice,                \* the last answer read at the confirm prompt
    edit_request,          \* the edit instruction being processed
    sent_prompt,           \* the prompt of the turn's last get_command call
    conversation_context,  \* the window: up to 3 formatted turns
    context_turns,         \* for each window entry, the number of the commit that pushed it
    ncommits,              \* turns committed so far
    executed,              \* the commands handed to execute_command in the turn
    exit_status,           \* what the command of the turn ended with, "" when none ran
    append_calls,          \* the append_to_history calls of the turn (or one-shot run)
    model_calls,           \* the get_command calls of the turn
    model_result,          \* what the last get_command of the turn returned
    hist_before,           \* the history file when the turn began (interactive mode)
    rl_saved,              \* rl.save_history ran
    events,                \* requests, edit prompts and failures so far
    env,                   \* the environment variables Config::from_env reads
    config,                \* the Config of the process
    dispatched,            \* for each get_command call, the client it went to
    response,              \* what the provider answered to the last call
    returned,              \* what the last get_command call returned
    printed,               \* Some(the entries wtf --history printed) in such a run
    model_text,                  \* a text the model returned
    stripped,              \* strip_ansi_codes of it, applied once and again
    command_result,                \* parse_output of it, with the command the callers keep
    ambient,               \* the working directory and the opt-out of the process
    request                \* the body of the last request to the provider

histVars == <<hist_exists, hist_lines>>
windowVars == <<conversation_context, context_turns, ncommits>>
turnVars == <<input, final_command, choice, edit_request, sent_prompt, executed, exit_status,
              append_calls, model_calls, model_result, hist_before>>
providerVars == <<env, config, dispatched, response, returned>>
sanitizerVars == <<model_text, stripped, command_result>>
requestVars == <<ambient, request>>
ioVars == <<printed, sanitizerVars, requestVars>>
vars == <<state, home, histVars, now, windowVars, turnVars, rl_saved, events,
          providerVars, ioVars>>

\* conversation_context.len() > 3
CONTEXT_CAP == 3

\* no answer has been read at the confirm prompt in this turn
NoChoice == <<"none">>

-----------------------------------------------------------------------------
(* Config::from_env and the two provider clients                           *)

\* Option<T>: None, Some(v)
None == <<>>
Some(v) == <<v>>

\* Option::unwrap_or_default for a String
unwrap_or_default(opt) == IF opt = None THEN "" ELSE opt[1]

GEMINI_BASE_URL == "https://generativelanguage.googleapis.com/v1beta"
GEMINI_MODEL == "gemini-2.0-flash"
OPENAI_MODEL == "gpt-4o-mini"

\* SelectProvider that leaves an empty model empty
SelectProvider_KeepsEmptyModel(base_url, model) ==
    IF base_url = ""
    THEN [provider |-> "Gemini", base_url |-> GEMINI_BASE_URL, model |-> model]
    ELSE [provider |-> "OpenAI", base_url |-> base_url, model |-> model]

\* the provider, base URL and model from_env settles on
SelectProvider(base_url, model) ==
    IF base_url = ""
    THEN [provider |-> "Gemini", base_url |-> GEMINI_BASE_URL,
          model |-> IF model = "" THEN GEMINI_MODEL ELSE model]
    ELSE [provider |-> "OpenAI", base_url |-> base_url,
          model |-> IF model = "" THEN OPENAI_MODEL ELSE model]

\* Config::from_env: [ok, config]; env::var gives Err for a variable that
\* is not set and Ok for one that is set, whatever its value
from_env(e) ==
    LET api_key == IF e.WTF_API_KEY # None THEN e.WTF_API_KEY ELSE e.GEMINI_API_KEY
        p == SelectProvider(unwrap_or_default(e.WTF_BASE_URL),
                            unwrap_or_default(e.WTF_MODEL))
    IN IF api_key = None THEN [ok |-> FALSE]
       ELSE [ok |-> TRUE,
             config |-> [api_key |-> api_key[1], base_url |-> p.base_url,
                         model |-> p.model, provider |-> p.provider]]

\* no Config: from_env has not run, or it failed
NoConfig == [api_key |-> "", base_url |-> "", model |-> "", provider |-> "none"]

\* an environment with a key and nothing else
DefaultEnv ==
    [WTF_API_KEY |-> Some("key-1"), GEMINI_API_KEY |-> None,
     WTF_BASE_URL |-> None, WTF_MODEL |-> None]

\* the environments a process is started in
Envs ==
    [WTF_API_KEY : {None, Some(""), Some("key-1")},
     GEMINI_API_KEY : {None, Some(""), Some("key-2")},
     WTF_BASE_URL : {None, Some(""), Some("http://localhost:11434/v1")},
     WTF_MODEL : {None, Some(""), Some("llama3")}]

\* status.is_success()
is_success(status) == status \in 200..299

\* the result of a get_command call
Failure(what) == [ok |-> FALSE, error |-> what]
Success(text) == [ok |-> TRUE, result |-> parse_output(text)]
NoOutcome == Failure("none")

\* an answer of the provider: whether the request got through, the HTTP
\* status, whether the body deserializes, its error member and its
\* candidates or choices (each the texts of its parts; a choice has one)
Answer(transport, status, parsed, error, items) ==
    [transport |-> transport, status |-> status, parsed |-> parsed,
     error |-> error, items |-> items]
NoResponse == Answer("none", 0, FALSE, None, None)

\* get_command_gemini, from the answer to its request
get_command_gemini(r) ==
    IF r.transport # "ok" THEN Failure("Failed to send request")
    ELSE IF ~is_success(r.status) THEN Failure("API error (status)")
    ELSE IF ~r.parsed THEN Failure("Failed to parse response")
    ELSE IF r.error # None THEN Failure("API error")
    ELSE IF r.items = None THEN Failure("No command generated")
    ELSE IF r.items[1] = <<>> THEN Failure("No command generated")
    ELSE IF r.items[1][1] = <<>> THEN Failure("No command generated")
    ELSE Success(r.items[1][1][1])

\* get_command_openai that looks at the error only when there is no choice
get_command_openai_ChoicesFirst(r) ==
    IF r.transport # "ok" THEN Failure("Failed to send request")
    ELSE IF ~is_success(r.status) THEN Failure("API error (status)")
    ELSE IF ~r.parsed THEN Failure("Failed to parse response")
    ELSE IF r.items # None /\ r.items[1] # <<>> THEN Success(r.items[1][1][1])
    ELSE IF r.error # None THEN Failure("API error")
    ELSE Failure("No command generated")

\* get_command_openai, from the answer to its request
get_command_openai(r) ==
    IF r.transport # "ok" THEN Failure("Failed to send request")
    ELSE IF ~is_success(r.status) THEN Failure("API error (status)")
    ELSE IF ~r.parsed THEN Failure("Failed to parse response")
    ELSE IF r.error # None THEN Failure("API error")
    ELSE IF r.items = None THEN Failure("No command generated")
    ELSE IF r.items[1] = <<>> THEN Failure("No command generated")
    ELSE Success(r.items[1][1][1])

\* the client get_command hands the call to
Dispatch(c) == IF c.provider = "Gemini" THEN "get_command_gemini" ELSE "get_command_openai"

\* get_command
get_command(c, r) ==
    IF Dispatch(c) = "get_command_gemini" THEN get_command_gemini(r)
    ELSE get_command_openai(r)

\* the bodies that deserialize into a GeminiResponse: candidates absent,
\* none, one without parts, and some with parts
GeminiItems ==
    {None, Some(<<>>), Some(<< <<>> >>), Some(<< <<RAW_LS>> >>),
     Some(<< <<RAW_LS, RAW_DF>> >>), Some(<< <<RAW_LS>>, <<RAW_DF>> >>),
     Some(<< <<>>, <<RAW_DF>> >>)}

\* the bodies that deserialize into an OpenAIResponse: choices absent,
\* none, one, two
OpenAIItems ==
    {None, Some(<<>>), Some(<< <<RAW_LS>> >>), Some(<< <<RAW_LS>>, <<RAW_DF>> >>)}

\* what can come back from a call made by the named client
Answers(client) ==
    {Answer("failed", 0, FALSE, None, None)}
      \cup {Answer("ok", s, FALSE, None, None) : s \in {200, 404, 500}}
      \cup {Answer("ok", s, TRUE, e, i) :
              s \in {200, 201},
              e \in {None, Some("quota exceeded")},
              i \in IF client = "get_command_gemini" THEN GeminiItems ELSE OpenAIItems}

\* the surroundings of the process: the listing of the working directory,
\* the short status of its repository and the opt-out of the environment
Surroundings(listing, status, opt_out) ==
    [listing |-> listing, status |-> status, opt_out |-> opt_out]
NoAmbient == Surroundings("", "", FALSE)

\* the body of a request: the system instruction and the user's content
RequestBody(system, user) == [system |-> system, user |-> user]
NoRequest == RequestBody(<<>>, <<>>)

\* let system_prompt = if explain { SYSTEM_PROMPT_EXPLAIN } else { SYSTEM_PROMPT }
system_prompt(explain) == IF explain THEN "SYSTEM_PROMPT_EXPLAIN" ELSE "SYSTEM_PROMPT"

\* the request_body of both clients: the system prompt as the pieces of
\* text it is made of, and the prompt as the user's content
request_body(explain, prompt) == RequestBody(<<system_prompt(explain)>>, prompt)

\* what the processes run in: a directory with or without files, in a
\* repository with or without changes, with or without the opt-out
Ambients ==
    {Surroundings(listing, status, opt_out) :
        listing \in {"", "Cargo.toml src"},
        status \in {"", " M src/main.rs"},
        opt_out \in BOOLEAN}

\* the prompt of the calls
CALL_PROMPT == <<"d", "f">>
-----------------------------------------------------------------------------
(* Interactive mode: run_interactive_mode                                  *)

EXIT == <<"e", "x", "i", "t">>
QUIT == <<"q", "u", "i", "t">>
CLEAR == <<"c", "l", "e", "a", "r">>
HELP == <<"h", "e", "l", "p">>

RECURSIVE Join(_, _)
\* [String]::join
Join(parts, sep) ==
    IF parts = <<>> THEN <<>>
    ELSE IF Len(parts) = 1 THEN Head(parts)
    ELSE Head(parts) \o sep \o Join(Tail(parts), sep)

\* format!("User: {}\nAssistant: {}", input, final_command)
FormatTurn(inp, command) == <<"User: ">> \o inp \o <<NL, "Assistant: ">> \o command

\* a faulty variant of ComposePrompt: the oldest turn of the window is left out
ComposePrompt_DropsOldest(context, inp) ==
    IF Len(context) <= 1 THEN inp
    ELSE <<"Previous conversation:", NL>> \o Join(Tail(context), <<NL>>)
           \o <<NL, NL, "New request: ">> \o inp

\* prompt_with_context
ComposePrompt(context, inp) ==
    IF context = <<>> THEN inp
    ELSE <<"Previous conversation:", NL>> \o Join(context, <<NL>>)
           \o <<NL, NL, "New request: ">> \o inp

\* edit_prompt
ComposeEditPrompt(command, edit) ==
    <<"Current command: ">> \o command \o <<NL, NL, "User wants to modify it: ">>
      \o edit
      \o <<NL, NL, "Generate the modified command. Output ONLY the new command, nothing else.">>

\* a faulty variant of looks_like_command: the ls prefix is not recognized
looks_like_command_NoLs(edit) ==
    \/ Contains(edit, <<"|">>)
    \/ Contains(edit, <<"&", "&">>)
    \/ Contains(edit, <<";">>)
    \/ StartsWith(edit, <<"f", "i", "n", "d">>)
    \/ StartsWith(edit, <<"g", "r", "e", "p">>)
    \/ StartsWith(edit, <<"c", "a", "t">>)
    \/ StartsWith(edit, <<"c", "u", "r", "l">>)
    \/ StartsWith(edit, <<"g", "i", "t">>)
    \/ StartsWith(edit, <<"d", "o", "c", "k", "e", "r">>)
    \/ StartsWith(edit, <<"k", "u", "b", "e", "c", "t", "l">>)

\* looks_like_command
looks_like_command(edit) ==
    \/ Contains(edit, <<"|">>)
    \/ Contains(edit, <<"&", "&">>)
    \/ Contains(edit, <<";">>)
    \/ StartsWith(edit, <<"f", "i", "n", "d">>)
    \/ StartsWith(edit, <<"g", "r", "e", "p">>)
    \/ StartsWith(edit, <<"l", "s">>)
    \/ StartsWith(edit, <<"c", "a", "t">>)
    \/ StartsWith(edit, <<"c", "u", "r", "l">>)
    \/ StartsWith(edit, <<"g", "i", "t">>)
    \/ StartsWith(edit, <<"d", "o", "c", "k", "e", "r">>)
    \/ StartsWith(edit, <<"k", "u", "b", "e", "c", "t", "l">>)

\* a faulty variant of PushContext: a full window drops the entry just pushed
PushContext_DropsNewest(context, entry) ==
    LET pushed == Append(context, entry) IN
    IF Len(pushed) > CONTEXT_CAP THEN SubSeq(pushed, 1, CONTEXT_CAP) ELSE pushed

\* conversation_context.push(..); if conversation_context.len() > 3 { remove(0) }
PushContext(context, entry) ==
    LET pushed == Append(context, entry) IN
    IF Len(pushed) > CONTEXT_CAP THEN Tail(pushed) ELSE pushed

\* the history file as a value
HistFile == [exists |-> hist_exists, lines |-> hist_lines]

\* after the confirm/edit loop (left by break): the push onto the window
Commit ==
    /\ conversation_context' = PushContext(conversation_context,
                                           FormatTurn(input, final_command))
    /\ context_turns' = PushContext(context_turns, ncommits + 1)
    /\ ncommits' = ncommits + 1
    /\ state' = "Committed"

\* rl.readline at the wtf> prompt returned Ok(line)
ReadLine(line) ==
    /\ state = "Idle"
    /\ LET inp == Trim(line)
           lower == ToLowercase(inp)
       IN /\ input' = inp
          /\ IF inp = <<>> \/ lower \in {CLEAR, HELP}
             THEN UNCHANGED <<ioVars, providerVars, state, home, histVars, now, windowVars, final_command,
                              choice, edit_request, sent_prompt, executed,
                              exit_status, append_calls, model_calls, model_result,
                              hist_before, rl_saved, events>>
             ELSE IF lower \in {EXIT, QUIT}
             THEN /\ state' = "Exited"
                  /\ rl_saved' = home
                  /\ UNCHANGED <<ioVars, providerVars, home, histVars, now, windowVars, final_command,
                                 choice, edit_request, sent_prompt, executed,
                                 exit_status, append_calls, model_calls,
                                 model_result, hist_before, events>>
             ELSE /\ events < MaxEvents
                  /\ events' = events + 1
                  /\ state' = "AwaitingModel"
                  /\ sent_prompt' = ComposePrompt(conversation_context, inp)
                  /\ model_calls' = 1
                  /\ UNCHANGED model_result
                  /\ UNCHANGED <<ioVars, providerVars, home, histVars, now, windowVars, final_command,
                                 choice, edit_request, executed, exit_status, append_calls,
                                 hist_before, rl_saved>>

\* rl.readline at the wtf> prompt returned Err(Interrupted)
ReadLineInterrupted ==
    /\ state = "Idle"
    /\ UNCHANGED vars

\* rl.readline at the wtf> prompt returned Err(Eof)
ReadLineEof ==
    /\ state = "Idle"
    /\ state' = "Exited"
    /\ rl_saved' = home
    /\ UNCHANGED <<ioVars, providerVars, home, histVars, now, windowVars, turnVars, events>>

\* rl.readline at the wtf> prompt returned another Err
ReadLineError ==
    /\ state = "Idle"
    /\ events < MaxEvents
    /\ events' = events + 1
    /\ state' = "Exited"
    /\ rl_saved' = home
    /\ UNCHANGED <<ioVars, providerVars, home, histVars, now, windowVars, turnVars>>

\* a faulty variant of ModelOk: an append that fails ends the session
ModelOk_AppendIsFatal(text, fault) ==
    /\ state = "AwaitingModel"
    /\ fault = NoFault \/ (home /\ events < MaxEvents)
    /\ LET command == StripFences(parse_output(text).command)
           r == append_to_history(home, hist_exists, hist_lines, input, command,
                                  now, fault)
       IN /\ hist_exists' = r.exists
          /\ hist_lines' = r.lines
          /\ append_calls' = Append(append_calls,
                                    [prompt |-> input, command |-> command,
                                     timestamp |-> now, fault |-> fault,
                                     ok |-> r.ok])
          /\ final_command' = command
          /\ state' = IF r.ok THEN "Presenting" ELSE "Failed"
    /\ events' = IF fault = NoFault THEN events ELSE events + 1
    /\ model_result' = "Ok"
    /\ UNCHANGED <<ioVars, providerVars, home, now, windowVars, input, choice, edit_request, sent_prompt,
                   executed, exit_status, model_calls, hist_before, rl_saved>>

\* get_command returned Ok for the request: the command is sanitized, saved to
\* the history and displayed, and the confirm prompt follows
ModelOk(text, fault) ==
    /\ state = "AwaitingModel"
    /\ fault = NoFault \/ (home /\ events < MaxEvents)
    /\ LET command == StripFences(parse_output(text).command)
           r == append_to_history(home, hist_exists, hist_lines, input, command,
                                  now, fault)
       IN /\ hist_exists' = r.exists
          /\ hist_lines' = r.lines
          /\ append_calls' = Append(append_calls,
                                    [prompt |-> input, command |-> command,
                                     timestamp |-> now, fault |-> fault,
                                     ok |-> r.ok])
          /\ final_command' = command
    /\ events' = IF fault = NoFault THEN events ELSE events + 1
    /\ model_result' = "Ok"
    /\ state' = "Presenting"
    /\ UNCHANGED <<ioVars, providerVars, home, now, windowVars, input, choice, edit_request, sent_prompt,
                   executed, exit_status, model_calls, hist_before, rl_saved>>

\* a faulty variant of ModelErr: the failed turn is pushed onto the window
ModelErr_Commits ==
    /\ state = "AwaitingModel"
    /\ Commit
    /\ UNCHANGED <<ioVars, providerVars, home, histVars, now, turnVars, rl_saved, events>>

\* get_command returned Err for the request: the error is printed
ModelErr ==
    /\ state = "AwaitingModel"
    /\ model_result' = "Err"
    /\ state' = "Errored"
    /\ UNCHANGED <<ioVars, providerVars, home, histVars, now, windowVars, input, final_command, choice,
                   edit_request, sent_prompt, executed, exit_status, append_calls,
                   model_calls, hist_before, rl_saved, events>>

\* a faulty variant of execute_command: a non-zero exit status is an error
execute_command_StatusIsError(outcome) == IF outcome = "exit_0" THEN "Ok" ELSE "Err"

\* execute_command(command): Err only when the shell cannot be launched; the
\* exit status of a command that ran is printed and Ok(()) returned
execute_command(outcome) == IF outcome = "launch_failed" THEN "Err" ELSE "Ok"

\* a faulty variant of IsYes: the empty answer counts as yes
IsYes_OrEmpty(answer) == answer \in {<<"y">>, <<"y", "e", "s">>, <<>>}

\* "y" | "yes"
IsYes(answer) == answer \in {<<"y">>, <<"y", "e", "s">>}

\* "n" | "no" | ""
IsNo(answer) == answer \in {<<"n">>, <<"n", "o">>, <<>>}

\* "e" | "edit"
IsEdit(answer) == answer \in {<<"e">>, <<"e", "d", "i", "t">>}

\* stdin.read_line at the confirm prompt returned Ok (end-of-input reads as
\* the empty line)
ConfirmRead(line, outcome) ==
    /\ state = "Presenting"
    /\ choice' = ToLowercase(Trim(line))
    /\ IF IsYes(choice')
       THEN /\ executed' = Append(executed, final_command)
            /\ exit_status' = outcome
            /\ IF execute_command(outcome) = "Ok"
               THEN /\ Commit
                    /\ UNCHANGED events
               ELSE \* execute_command(&final_command)? returns from
                    \* run_interactive_mode with the error
                    /\ events < MaxEvents
                    /\ events' = events + 1
                    /\ state' = "Failed"
                    /\ UNCHANGED windowVars
       ELSE /\ outcome = "exit_0"
            /\ UNCHANGED <<executed, exit_status>>
            /\ IF IsNo(choice')
               THEN /\ Commit
                    /\ UNCHANGED events
               ELSE IF IsEdit(choice')
               THEN /\ events < MaxEvents
                    /\ events' = events + 1
                    /\ state' = "Editing"
                    /\ UNCHANGED windowVars
               ELSE UNCHANGED <<state, windowVars, events>>
    /\ UNCHANGED <<ioVars, providerVars, home, histVars, now, input, final_command, edit_request,
                   sent_prompt, append_calls, model_calls, model_result, hist_before,
                   rl_saved>>

\* stdin.read_line at the confirm prompt returned Err: the loop is left
ConfirmReadError ==
    /\ state = "Presenting"
    /\ events < MaxEvents
    /\ events' = events + 1
    /\ Commit
    /\ UNCHANGED <<ioVars, providerVars, home, histVars, now, turnVars, rl_saved>>

\* rl.readline at the edit prompt returned Ok(edit_request)
EditRead(line) ==
    /\ state = "Editing"
    /\ LET edit == Trim(line) IN
       IF edit = <<>>
       THEN /\ state' = "Presenting"
            /\ UNCHANGED <<final_command, edit_request, sent_prompt, model_calls>>
       ELSE IF looks_like_command(edit)
       THEN /\ final_command' = edit
            /\ edit_request' = edit
            /\ state' = "Presenting"
            /\ UNCHANGED <<sent_prompt, model_calls>>
       ELSE /\ edit_request' = edit
            /\ sent_prompt' = ComposeEditPrompt(final_command, edit)
            /\ model_calls' = model_calls + 1
            /\ state' = "AwaitingEdit"
            /\ UNCHANGED final_command
    /\ UNCHANGED <<ioVars, providerVars, home, histVars, now, windowVars, input, choice, executed,
                   exit_status, append_calls, model_result, hist_before, rl_saved,
                   events>>

\* a faulty variant of EditCancelled: the pending command is lost
EditCancelled_DropsCommand ==
    /\ state = "Editing"
    /\ state' = "Presenting"
    /\ final_command' = <<>>
    /\ UNCHANGED <<ioVars, providerVars, home, histVars, now, windowVars, input, choice,
                   edit_request, sent_prompt, executed, exit_status, append_calls,
                   model_calls, model_result, hist_before, rl_saved, events>>

\* rl.readline at the edit prompt returned Err(Interrupted) or Err(Eof)
EditCancelled ==
    /\ state = "Editing"
    /\ state' = "Presenting"
    /\ UNCHANGED <<ioVars, providerVars, home, histVars, now, windowVars, turnVars, rl_saved, events>>

\* rl.readline at the edit prompt returned another Err: the loop is left
EditReadError ==
    /\ state = "Editing"
    /\ events < MaxEvents
    /\ events' = events + 1
    /\ Commit
    /\ UNCHANGED <<ioVars, providerVars, home, histVars, now, turnVars, rl_saved>>

\* a faulty variant of EditModelOk: an empty command is taken as it is
EditModelOk_TakesEmpty(text) ==
    /\ state = "AwaitingEdit"
    /\ final_command' = StripFences(parse_output(text).command)
    /\ model_result' = "Ok"
    /\ state' = "Presenting"
    /\ UNCHANGED <<ioVars, providerVars, home, histVars, now, windowVars, input, choice, edit_request,
                   sent_prompt, executed, exit_status, append_calls, model_calls,
                   hist_before, rl_saved, events>>

\* a faulty variant of EditModelOk: the edited command is saved to the
\* history as well
EditModelOk_Appends(text) ==
    /\ state = "AwaitingEdit"
    /\ LET new_command == StripFences(parse_output(text).command)
           command == IF new_command # <<>> THEN new_command ELSE edit_request
           r == append_to_history(home, hist_exists, hist_lines, edit_request, command,
                                  now, NoFault)
       IN /\ final_command' = command
          /\ hist_exists' = r.exists
          /\ hist_lines' = r.lines
    /\ model_result' = "Ok"
    /\ state' = "Presenting"
    /\ UNCHANGED <<ioVars, providerVars, home, now, windowVars, input, choice, edit_request,
                   sent_prompt, executed, exit_status, append_calls, model_calls,
                   hist_before, rl_saved, events>>

\* get_command returned Ok for the edit
EditModelOk(text) ==
    /\ state = "AwaitingEdit"
    /\ LET new_command == StripFences(parse_output(text).command) IN
       final_command' = IF new_command # <<>> THEN new_command ELSE edit_request
    /\ model_result' = "Ok"
    /\ state' = "Presenting"
    /\ UNCHANGED <<ioVars, providerVars, home, histVars, now, windowVars, input, choice, edit_request,
                   sent_prompt, executed, exit_status, append_calls, model_calls,
                   hist_before, rl_saved, events>>

\* a faulty variant of EditModelErr: the pending command is kept
EditModelErr_KeepsCommand ==
    /\ state = "AwaitingEdit"
    /\ model_result' = "Err"
    /\ state' = "Presenting"
    /\ UNCHANGED <<ioVars, providerVars, home, histVars, now, windowVars, input, final_command, choice,
                   edit_request, sent_prompt, executed, exit_status, append_calls,
                   model_calls, hist_before, rl_saved, events>>

\* get_command returned Err for the edit
EditModelErr ==
    /\ state = "AwaitingEdit"
    /\ final_command' = edit_request
    /\ model_result' = "Err"
    /\ state' = "Presenting"
    /\ UNCHANGED <<ioVars, providerVars, home, histVars, now, windowVars, input, choice, edit_request,
                   sent_prompt, executed, exit_status, append_calls, model_calls,
                   hist_before, rl_saved, events>>

\* the end of the iteration of the outer loop: the locals of the turn go out
\* of scope and the wtf> prompt is next
EndTurn ==
    /\ state \in {"Committed", "Errored"}
    /\ state' = "Idle"
    /\ input' = <<>>
    /\ final_command' = <<>>
    /\ choice' = NoChoice
    /\ edit_request' = <<>>
    /\ sent_prompt' = <<>>
    /\ executed' = <<>>
    /\ exit_status' = ""
    /\ append_calls' = <<>>
    /\ model_calls' = 0
    /\ model_result' = "none"
    /\ hist_before' = HistFile
    /\ UNCHANGED <<ioVars, providerVars, home, histVars, now, windowVars, rl_saved, events>>

\* the state when run_interactive_mode reaches its loop: no window, and the
\* history file absent or empty (HOME unset: no history file is used)
Init ==
    /\ state = "Idle"
    /\ home \in BOOLEAN
    /\ hist_exists \in (IF home THEN BOOLEAN ELSE {FALSE})
    /\ hist_lines = <<>>
    /\ now = 0
    /\ input = <<>>
    /\ final_command = <<>>
    /\ choice = NoChoice
    /\ edit_request = <<>>
    /\ sent_prompt = <<>>
    /\ conversation_context = <<>>
    /\ context_turns = <<>>
    /\ ncommits = 0
    /\ executed = <<>>
    /\ exit_status = ""
    /\ append_calls = <<>>
    /\ model_calls = 0
    /\ model_result = "none"
    /\ hist_before = [exists |-> hist_exists, lines |-> <<>>]
    /\ rl_saved = FALSE
    /\ events = 0
    /\ env = DefaultEnv
    /\ config = from_env(DefaultEnv).config
    /\ dispatched = <<>>
    /\ response = NoResponse
    /\ returned = NoOutcome
    /\ printed = None
    /\ model_text = <<>>
    /\ stripped = <<>>
    /\ command_result = None
    /\ ambient = NoAmbient
    /\ request = NoRequest

Next ==
    \/ \E line \in IdleLines : ReadLine(line)
    \/ ReadLineInterrupted
    \/ ReadLineEof
    \/ ReadLineError
    \/ \E text \in ModelTexts :
         \E fault \in {NoFault} \cup AppendFaults(hist_exists, hist_lines) :
           ModelOk(text, fault)
    \/ ModelErr
    \/ \E line \in ConfirmLines : \E outcome \in ExecOutcomes : ConfirmRead(line, outcome)
    \/ ConfirmReadError
    \/ \E line \in EditLines : EditRead(line)
    \/ EditCancelled
    \/ EditReadError
    \/ \E text \in EditTexts : EditModelOk(text)
    \/ EditModelErr
    \/ EndTurn

Spec == Init /\ [][Next]_vars

-----------------------------------------------------------------------------
(* One-shot runs of the program (main without --interactive), each a      *)
(* process of its own; the history file is what they share                *)

\* the prompts given on the command line
REQ_QUOTED == <<" ", ESC, "[", "0", "m", "d", NL, QUOTE, BSLASH, " ">>
CliPrompts == {REQ_QUOTED}

\* the text the model returns in a one-shot run
CliTexts == {RAW_DF}

\* what Utc::now().timestamp() can return when the clock last read t: the
\* same second or a later one
ClockReadings(t) == {t, IF t < MaxNow THEN t + 1 ELSE t}

\* a line written by an earlier run: entry number i of the log
OldLine(i) ==
    ToJson([timestamp |-> 0, prompt |-> FormatInt(i), command |-> <<"l", "s">>])

\* the lengths of the history file when the runs begin
InitLens == {0, 1, HISTORY_CAP - 1}

\* wtf <prompt>: get_command returned Ok; the command is sanitized, saved to
\* the history and printed (timestamp = what Utc::now() returns: the clock
\* has not gone back since it was last read)
CliPrompt(prompt, text, fault, timestamp) ==
    /\ state = "Cli"
    /\ now' = timestamp
    /\ events + (IF fault = NoFault THEN 1 ELSE 2) <= MaxAppends
    /\ events' = events + (IF fault = NoFault THEN 1 ELSE 2)
    /\ LET command == StripFences(parse_output(text).command)
           r == append_to_history(home, hist_exists, hist_lines, prompt, command,
                                  timestamp, fault)
       IN /\ hist_exists' = r.exists
          /\ hist_lines' = r.lines
          /\ append_calls' = <<[prompt |-> prompt, command |-> command,
                                timestamp |-> timestamp, fault |-> fault,
                                ok |-> r.ok]>>
          /\ final_command' = command
    /\ input' = prompt
    /\ sent_prompt' = prompt
    /\ model_calls' = 1
    /\ model_result' = "Ok"
    /\ printed' = None
    /\ UNCHANGED <<sanitizerVars, requestVars, providerVars, state, home, windowVars, choice, edit_request, executed, exit_status,
                   hist_before, rl_saved>>

\* wtf <prompt>: get_command returned Err and main returns it
CliPromptErr(prompt) ==
    /\ state = "Cli"
    /\ input' = prompt
    /\ sent_prompt' = prompt
    /\ model_calls' = 1
    /\ model_result' = "Err"
    /\ printed' = None
    /\ final_command' = <<>>
    /\ append_calls' = <<>>
    /\ UNCHANGED <<sanitizerVars, requestVars, providerVars, state, home, histVars, now, windowVars, choice, edit_request, executed,
                   exit_status, hist_before, rl_saved, events>>

\* wtf --history: show_history prints the entries and changes no file
CliHistory ==
    /\ state = "Cli"
    /\ input' = <<>>
    /\ sent_prompt' = <<>>
    /\ model_calls' = 0
    /\ printed' = Some(show_history(hist_exists, hist_lines))
    /\ model_result' = "none"
    /\ final_command' = <<>>
    /\ append_calls' = <<>>
    /\ UNCHANGED <<sanitizerVars, requestVars, providerVars, state, home, histVars, now, windowVars, choice, edit_request, executed,
                   exit_status, hist_before, rl_saved, events>>

\* a faulty variant of clear_history: the file is emptied, not removed
clear_history_Empties(home_set, exists, lines, remove_ok) ==
    IF ~home_set THEN [ok |-> FALSE, exists |-> exists, lines |-> lines]
    ELSE IF ~exists THEN [ok |-> TRUE, exists |-> FALSE, lines |-> <<>>]
    ELSE IF remove_ok THEN [ok |-> TRUE, exists |-> TRUE, lines |-> <<>>]
    ELSE [ok |-> FALSE, exists |-> exists, lines |-> lines]

\* clear_history: [ok, exists, lines]
clear_history(home_set, exists, lines, remove_ok) ==
    IF ~home_set THEN [ok |-> FALSE, exists |-> exists, lines |-> lines]
    ELSE IF ~exists THEN [ok |-> TRUE, exists |-> FALSE, lines |-> <<>>]
    ELSE IF remove_ok THEN [ok |-> TRUE, exists |-> FALSE, lines |-> <<>>]
    ELSE [ok |-> FALSE, exists |-> exists, lines |-> lines]

\* wtf --clear-history (remove_ok = fs::remove_file succeeded)
CliClearHistory(remove_ok) ==
    /\ state = "Cli"
    /\ events < MaxAppends
    /\ events' = events + 1
    /\ LET r == clear_history(home, hist_exists, hist_lines, remove_ok) IN
       /\ hist_exists' = r.exists
       /\ hist_lines' = r.lines
    /\ input' = <<>>
    /\ sent_prompt' = <<>>
    /\ model_calls' = 0
    /\ printed' = None
    /\ model_result' = "none"
    /\ final_command' = <<>>
    /\ append_calls' = <<>>
    /\ UNCHANGED <<sanitizerVars, requestVars, providerVars, state, home, now, windowVars, choice, edit_request, executed,
                   exit_status, hist_before, rl_saved>>

\* before the first of the runs: a history file of earlier runs, or none
InitHist ==
    /\ state = "Cli"
    /\ \E n \in InitLens :
         /\ hist_lines = [i \in 1..n |-> OldLine(i)]
         /\ hist_exists \in (IF n > 0 THEN {TRUE} ELSE BOOLEAN)
         /\ home \in (IF hist_exists THEN {TRUE} ELSE BOOLEAN)
    /\ now = 0
    /\ input = <<>>
    /\ final_command = <<>>
    /\ choice = NoChoice
    /\ edit_request = <<>>
    /\ sent_prompt = <<>>
    /\ conversation_context = <<>>
    /\ context_turns = <<>>
    /\ ncommits = 0
    /\ executed = <<>>
    /\ exit_status = ""
    /\ append_calls = <<>>
    /\ model_calls = 0
    /\ model_result = "none"
    /\ hist_before = [exists |-> FALSE, lines |-> <<>>]
    /\ rl_saved = FALSE
    /\ events = 0
    /\ env = DefaultEnv
    /\ config = from_env(DefaultEnv).config
    /\ dispatched = <<>>
    /\ response = NoResponse
    /\ returned = NoOutcome
    /\ printed = None
    /\ model_text = <<>>
    /\ stripped = <<>>
    /\ command_result = None
    /\ ambient = NoAmbient
    /\ request = NoRequest

NextHist ==
    \/ \E prompt \in CliPrompts : \E text \in CliTexts :
         \E fault \in {NoFault} \cup AppendFaults(hist_exists, hist_lines) :
           \E timestamp \in ClockReadings(now) : CliPrompt(prompt, text, fault, timestamp)
    \/ \E prompt \in CliPrompts : CliPromptErr(prompt)
    \/ CliHistory
    \/ \E remove_ok \in BOOLEAN : CliClearHistory(remove_ok)

SpecHist == InitHist /\ [][NextHist]_vars

-----------------------------------------------------------------------------
(* A process from its start: the Config is resolved, then get_command is   *)
(* called, once in a one-shot run and once or more in a session            *)

\* the get_command calls of one process
MaxCalls == 2

\* let config = Config::from_env()?
ResolveConfig ==
    /\ state = "Start"
    /\ LET r == from_env(env) IN
       IF r.ok
       THEN config' = r.config /\ state' = "Ready"
       ELSE config' = config /\ state' = "ConfigError"
    /\ UNCHANGED <<ioVars, home, histVars, now, windowVars, turnVars, rl_saved, events,
                   env, dispatched, response, returned>>

\* get_command(&config, &prompt, explain): the call goes to one of the two
\* clients, which builds the request
CallModel(explain) ==
    /\ state = "Ready"
    /\ Len(dispatched) < MaxCalls
    /\ dispatched' = Append(dispatched, Dispatch(config))
    /\ response' = NoResponse
    /\ returned' = NoOutcome
    /\ request' = request_body(explain, CALL_PROMPT)
    /\ state' = "Calling"
    /\ UNCHANGED <<printed, sanitizerVars, ambient, home, histVars, now, windowVars, turnVars, rl_saved, events,
                   env, config>>

\* the client returns
ModelResponds(r) ==
    /\ state = "Calling"
    /\ response' = r
    /\ returned' = get_command(config, r)
    /\ state' = "Ready"
    /\ UNCHANGED <<ioVars, home, histVars, now, windowVars, turnVars, rl_saved, events,
                   env, config, dispatched>>

InitProvider ==
    /\ state = "Start"
    /\ env \in Envs
    /\ config = NoConfig
    /\ dispatched = <<>>
    /\ response = NoResponse
    /\ returned = NoOutcome
    /\ home = TRUE
    /\ hist_exists = FALSE
    /\ hist_lines = <<>>
    /\ now = 0
    /\ input = <<>>
    /\ final_command = <<>>
    /\ choice = NoChoice
    /\ edit_request = <<>>
    /\ sent_prompt = <<>>
    /\ conversation_context = <<>>
    /\ context_turns = <<>>
    /\ ncommits = 0
    /\ executed = <<>>
    /\ exit_status = ""
    /\ append_calls = <<>>
    /\ model_calls = 0
    /\ model_result = "none"
    /\ hist_before = [exists |-> FALSE, lines |-> <<>>]
    /\ rl_saved = FALSE
    /\ events = 0
    /\ printed = None
    /\ model_text = <<>>
    /\ stripped = <<>>
    /\ command_result = None
    /\ ambient \in Ambients
    /\ request = NoRequest

NextProvider ==
    \/ ResolveConfig
    \/ \E explain \in BOOLEAN : CallModel(explain)
    \/ \E r \in Answers(Dispatch(config)) : ModelResponds(r)

SpecProvider == InitProvider /\ [][NextProvider]_vars

-----------------------------------------------------------------------------
(* wtf --history on history files that hold lines the program did not      *)
(* write: lines cut short, emptied or of another format                    *)

\* the longest history file read
MaxLines == 23

\* where the lines that do not parse are
BadSpots == {1, 4, MaxLines - 1}

\* a line that is not a HistoryEntry: an empty one, an entry cut before its
\* closing brace, an object without its command
BadLine(i) ==
    CASE i = 1 -> <<>>
      [] i = 4 -> SubSeq(OldLine(i), 1, Len(OldLine(i)) - 1)
      [] OTHER -> <<"{", K_TIMESTAMP, "0", ",", K_PROMPT, QUOTE, "x", QUOTE, "}">>

\* a history file of n lines, those at the places of bad not parsing
LogFile(n, bad) == [i \in 1..n |-> IF i \in bad THEN BadLine(i) ELSE OldLine(i)]

\* a run of the program that finds such a file
InitLog ==
    /\ state = "Cli"
    /\ home = TRUE
    /\ hist_exists = TRUE
    /\ \E n \in 0..MaxLines : \E bad \in SUBSET (BadSpots \cap (1..n)) :
         hist_lines = LogFile(n, bad)
    /\ now = 0
    /\ input = <<>>
    /\ final_command = <<>>
    /\ choice = NoChoice
    /\ edit_request = <<>>
    /\ sent_prompt = <<>>
    /\ conversation_context = <<>>
    /\ context_turns = <<>>
    /\ ncommits = 0
    /\ executed = <<>>
    /\ exit_status = ""
    /\ append_calls = <<>>
    /\ model_calls = 0
    /\ model_result = "none"
    /\ hist_before = [exists |-> FALSE, lines |-> <<>>]
    /\ rl_saved = FALSE
    /\ events = 0
    /\ env = DefaultEnv
    /\ config = from_env(DefaultEnv).config
    /\ dispatched = <<>>
    /\ response = NoResponse
    /\ returned = NoOutcome
    /\ printed = None
    /\ model_text = <<>>
    /\ stripped = <<>>
    /\ command_result = None
    /\ ambient = NoAmbient
    /\ request = NoRequest

NextLog == CliHistory

SpecLog == InitLog /\ [][NextLog]_vars

-----------------------------------------------------------------------------
(* The output sanitizer on the texts a model can return                    *)

\* the longest text made of escape-sequence characters
MaxAnsiLen == 5
\* the longest text made of separator characters
MaxSepLen == 7

\* the strings of at most n characters of an alphabet
Strings(alphabet, n) == UNION {[1..k -> alphabet] : k \in 0..n}

\* texts with escape sequences: complete, nested, adjacent, unterminated
\* ones and ESC alone
AnsiTexts == Strings({ESC, "[", "m", "1"}, MaxAnsiLen)

\* texts with and without the explanation separator
SeparatorTexts == Strings({"#", "a", " "}, MaxSepLen)

\* the language tags of a code fence
FenceTags ==
    {<<>>, <<"b", "a", "s", "h">>, <<"s", "h">>, <<"z", "s", "h">>,
     <<"s", "h", "e", "l", "l">>}

\* a command in a markdown code fence
Fenced(tag, body) == FENCE \o tag \o <<NL>> \o body \o <<NL>> \o FENCE

FencedTexts == {Fenced(tag, <<"l", "s">>) : tag \in FenceTags}

\* strip_ansi_codes applied to the text, then to its own result
StripAnsi ==
    /\ state = "Text"
    /\ Len(stripped) < 2
    /\ stripped' = Append(stripped,
                          strip_ansi_codes(IF stripped = <<>> THEN model_text
                                           ELSE stripped[Len(stripped)]))
    /\ UNCHANGED <<state, home, histVars, now, windowVars, turnVars, rl_saved, events,
                   providerVars, printed, model_text, command_result, requestVars>>

\* let result = parse_output(&text), and the command its callers keep:
\* result.command with the code fences trimmed off
ParseOutput ==
    /\ state = "Text"
    /\ command_result = None
    /\ command_result' = Some(parse_output(model_text))
    /\ final_command' = StripFences(parse_output(model_text).command)
    /\ UNCHANGED <<state, home, histVars, now, windowVars, input, choice, edit_request,
                   sent_prompt, executed, exit_status, append_calls, model_calls,
                   model_result, hist_before, rl_saved, events, providerVars, printed,
                   model_text, stripped, requestVars>>

InitText ==
    /\ state = "Text"
    /\ model_text \in AnsiTexts \cup SeparatorTexts \cup FencedTexts
    /\ stripped = <<>>
    /\ command_result = None
    /\ printed = None
    /\ ambient = NoAmbient
    /\ request = NoRequest
    /\ home = TRUE
    /\ hist_exists = FALSE
    /\ hist_lines = <<>>
    /\ now = 0
    /\ input = <<>>
    /\ final_command = <<>>
    /\ choice = NoChoice
    /\ edit_request = <<>>
    /\ sent_prompt = <<>>
    /\ conversation_context = <<>>
    /\ context_turns = <<>>
    /\ ncommits = 0
    /\ executed = <<>>
    /\ exit_status = ""
    /\ append_calls = <<>>
    /\ model_calls = 0
    /\ model_result = "none"
    /\ hist_before = [exists |-> FALSE, lines |-> <<>>]
    /\ rl_saved = FALSE
    /\ events = 0
    /\ env = DefaultEnv
    /\ config = from_env(DefaultEnv).config
    /\ dispatched = <<>>
    /\ response = NoResponse
    /\ returned = NoOutcome

NextText ==
    \/ StripAnsi
    \/ ParseOutput

SpecText == InitText /\ [][NextText]_vars

-----------------------------------------------------------------------------
(* The session when every call returns and the operator keeps answering    *)

\* get_command returns for the request
ModelReturns ==
    \/ ModelErr
    \/ \E text \in ModelTexts :
         \E fault \in {NoFault} \cup AppendFaults(hist_exists, hist_lines) :
           ModelOk(text, fault)

\* get_command returns for the edit
EditModelReturns ==
    \/ EditModelErr
    \/ \E text \in EditTexts : EditModelOk(text)

\* the operator answers y, yes, n or no at the confirm prompt
OperatorDecides ==
    \E line \in {<<"y", NL>>, <<"Y", "E", "S", NL>>, <<"n", NL>>, <<"N", "o", NL>>} :
        \E outcome \in ExecOutcomes : ConfirmRead(line, outcome)

\* the read at the edit prompt returns
EditPromptReturns ==
    \/ EditCancelled
    \/ \E line \in EditLines : EditRead(line)

\* the session, with the awaited calls returning, the operator deciding
\* whenever asked again and again, and the loop going on to the next prompt
SpecLive ==
    /\ Init
    /\ [][Next]_vars
    /\ WF_vars(ModelReturns)
    /\ WF_vars(EditModelReturns)
    /\ WF_vars(EditPromptReturns)
    /\ SF_vars(OperatorDecides)
    /\ WF_vars(EndTurn)

-----------------------------------------------------------------------------
(* Properties of the interactive session (Spec)                            *)

\* the answers the confirm prompt takes as yes, and as no
YesAnswers == {<<"y">>, <<"y", "e", "s">>}
NoAnswers == {<<"n">>, <<"n", "o">>, <<>>}

\* the entry in the last line of the history file
LastEntry == FromJson(hist_lines[Len(hist_lines)]).entry

\* C1: when a turn is committed, the history entry written for the turn
\* holds the final pending command (sanitized as every stored text is) and
\* the request, and the same pair is the one pushed onto the window.
C1_HistoryHoldsFinalCommand ==
    (state = "Committed" /\ append_calls # <<>> /\ append_calls[1].ok) =>
        /\ hist_lines # <<>>
        /\ LastEntry.prompt = Trim(strip_ansi_codes(input))
        /\ LastEntry.command = Trim(strip_ansi_codes(final_command))
        /\ conversation_context[Len(conversation_context)]
               = FormatTurn(input, final_command)

\* C2: a turn that ends on a failure without committing has left the
\* history file as it was when the turn began.
C2_FailedTurnWritesNothing ==
    state \in {"Errored", "Failed"} => HistFile = hist_before

\* C3: the session ends only from the wtf> prompt (exit, quit, end of
\* input): no step taken inside a turn ends it.
C3_SessionEndsOnlyFromIdle ==
    [][state' \in {"Exited", "Failed"} => state \in {"Idle", "Exited", "Failed"}]_vars

\* C4: the window holds the min(3, commits) most recently committed turns
\* in commit order; a commit puts its turn last; once four turns are
\* committed the first is gone; and the prompt sent for a request is
\* composed of the window and the request.
C4_WindowIsLastThreeCommits ==
    LET n == Len(conversation_context) IN
    /\ n = (IF ncommits < 3 THEN ncommits ELSE 3)
    /\ Len(context_turns) = n
    /\ \A i \in 1..n : context_turns[i] = ncommits - n + i
    /\ ncommits >= 4 => \A i \in 1..n : context_turns[i] # 1
    /\ state = "Committed" =>
           conversation_context[n] = FormatTurn(input, final_command)
    /\ state = "AwaitingModel" =>
           sent_prompt = ComposePrompt(conversation_context, input)

\* a fifth request is with the model after four commits
C4_Witness ==
    state = "AwaitingModel" /\ ncommits = 4 /\ context_turns = <<2, 3, 4>>

\* C5: when the model call for a request fails the turn goes back to the
\* wtf> prompt with the history file and the window unchanged, and without
\* the confirm prompt or the execution of a command.
C5_ModelFailureLeavesNoTrace ==
    /\ [](state = "Errored" =>
              /\ HistFile = hist_before
              /\ append_calls = <<>>
              /\ choice = NoChoice
              /\ executed = <<>>)
    /\ [][/\ (state = "AwaitingModel" /\ state' # "Presenting") =>
                 (state' = "Errored" /\ UNCHANGED <<histVars, windowVars>>)
          /\ state = "Errored" =>
                 (state' = "Idle" /\ UNCHANGED <<histVars, windowVars>>)]_vars

\* the model call failed in a session that has a history and a window
C5_Witness ==
    state = "Errored" /\ ncommits >= 1 /\ hist_lines # <<>>

\* C6: a command is executed only on the answer y or yes: while the
\* confirm/edit loop runs nothing has been executed, and the answers n, no
\* and the empty one commit the turn with nothing executed.
C6_ExecutionOnlyOnYes ==
    /\ executed # <<>> =>
           /\ choice \in YesAnswers
           /\ state \in {"Committed", "Failed"}
    /\ state \in {"Presenting", "Editing", "AwaitingEdit"} => executed = <<>>
    /\ choice \in NoAnswers => (state = "Committed" /\ executed = <<>>)

\* the empty answer after an edit: committed, nothing executed
C6_Witness ==
    /\ state = "Committed"
    /\ choice = <<>>
    /\ edit_request # <<>>
    /\ executed = <<>>

\* C7: on y or yes, a command that could be launched is the pending
\* command, it is executed once, and the turn is committed with it
\* whatever its exit status.
C7_YesRunsPendingCommandOnce ==
    (choice \in YesAnswers /\ exit_status \in {"exit_0", "exit_1"}) =>
        /\ executed = <<final_command>>
        /\ state = "Committed"
        /\ conversation_context[Len(conversation_context)]
               = FormatTurn(input, final_command)

\* an edited command was run and exited with a failure
C7_Witness ==
    /\ state = "Committed"
    /\ choice \in YesAnswers
    /\ exit_status = "exit_1"
    /\ edit_request # <<>>
    /\ executed # <<append_calls[1].command>>

-----------------------------------------------------------------------------
(* Properties of the history file (SpecHist)                               *)

\* the step is a one-shot run whose append_to_history returned Ok
AppendReturnedOk ==
    /\ events' # events
    /\ append_calls' # <<>>
    /\ append_calls'[1].ok

\* C8: the history file never holds more than 1000 lines, and an append
\* that succeeds on a file of n lines leaves min(n + 1, 1000) lines: the
\* newest of the old ones in their order, then the new entry.
C8_HistoryCapped ==
    /\ [](Len(hist_lines) <= 1000)
    /\ [][AppendReturnedOk =>
            LET old == IF hist_exists THEN hist_lines ELSE <<>>
                n == Len(old)
                m == IF n + 1 < 1000 THEN n + 1 ELSE 1000
                c == append_calls'[1]
            IN /\ hist_exists'
               /\ Len(hist_lines') = m
               /\ \A i \in 1..(m - 1) : hist_lines'[i] = old[n - (m - 1) + i]
               /\ hist_lines'[m] = ToJson(NewEntry(c.prompt, c.command, c.timestamp))]_vars

\* an append to a full file: the oldest line was dropped
C8_Witness ==
    /\ append_calls # <<>>
    /\ append_calls[1].ok
    /\ events >= 2
    /\ Len(hist_lines) = 1000
    /\ hist_lines[1] = OldLine(2)

\* the timestamps of the entries do not decrease
TimestampsInOrder(entries) ==
    \A i \in 1..(Len(entries) - 1) : entries[i].timestamp <= entries[i + 1].timestamp

\* C9: an entry appended and read back has the sanitized request and
\* command it was appended with, the entries read back are in the order of
\* their appends, and their timestamps do not decrease.
C9_HistoryRoundTrip ==
    /\ [](\A shown \in {show_history(hist_exists, hist_lines)} :
          /\ TimestampsInOrder(shown)
          /\ (append_calls # <<>> /\ append_calls[1].ok) =>
                 /\ shown # <<>>
                 /\ shown[Len(shown)] =
                        [timestamp |-> append_calls[1].timestamp,
                         prompt |-> Trim(strip_ansi_codes(append_calls[1].prompt)),
                         command |-> Trim(strip_ansi_codes(append_calls[1].command))])
    /\ [][AppendReturnedOk =>
            \A before \in {show_history(hist_exists, hist_lines)} :
            \A after \in {show_history(hist_exists', hist_lines')} :
                after = LastN(Append(before, after[Len(after)]), SHOW_LAST)]_vars

\* two entries appended at different times are read back, the later last
C9_Witness ==
    /\ append_calls # <<>>
    /\ append_calls[1].ok
    /\ Len(hist_lines) >= 2
    /\ LastEntry = [timestamp |-> 1, prompt |-> <<"d", NL, QUOTE, BSLASH>>, command |-> <<"d", "f">>]
    /\ FromJson(hist_lines[Len(hist_lines) - 1]).entry
           = [timestamp |-> 0, prompt |-> <<"d", NL, QUOTE, BSLASH>>, command |-> <<"d", "f">>]

\* s is a prefix of t
IsPrefix(s, t) == Len(s) <= Len(t) /\ s = SubSeq(t, 1, Len(s))

\* C10: an append that fails at the read leaves the history file as it
\* was; one that fails in the write-back leaves a prefix of the intended
\* lines, and not an empty file when there were entries before.
C10_FailedAppendKeepsEntries ==
    append_calls # <<>> =>
        LET c == append_calls[1]
            intended == IntendedLines(hist_before.exists, hist_before.lines,
                                      c.prompt, c.command, c.timestamp)
        IN /\ c.fault.kind = "read" => HistFile = hist_before
           /\ c.fault.kind = "write" =>
                  /\ IsPrefix(hist_lines, intended)
                  /\ hist_before.lines # <<>> => hist_lines # <<>>

-----------------------------------------------------------------------------
(* Properties of the edit path and of the confirm/edit loop (Spec)         *)

\* the command names that make an edit text a direct replacement
DirectPrefixes ==
    {<<"f", "i", "n", "d">>, <<"g", "r", "e", "p">>, <<"l", "s">>,
     <<"c", "a", "t">>, <<"c", "u", "r", "l">>, <<"g", "i", "t">>,
     <<"d", "o", "c", "k", "e", "r">>, <<"k", "u", "b", "e", "c", "t", "l">>}

\* the edit text holds a pipe, && or ; or begins with one of the names
IsDirectReplacement(edit) ==
    \/ \E i \in 1..Len(edit) : edit[i] \in {"|", ";"}
    \/ \E i \in 1..(Len(edit) - 1) : edit[i] = "&" /\ edit[i + 1] = "&"
    \/ \E p \in DirectPrefixes : Len(edit) >= Len(p) /\ SubSeq(edit, 1, Len(p)) = p

\* edit texts on both sides of each rule of the classification
EditSamples ==
    {<<"a", "|", "b">>, <<"a", "&", "&", "b">>, <<"a", "&", "b">>, <<"a", ";">>,
     <<"f", "i", "n", "d", " ", ".">>, <<"g", "r", "e", "p">>, <<"l", "s", "o", "f">>,
     <<"c", "a", "t">>, <<"c", "u", "r", "l">>, <<"g", "i", "t">>,
     <<"d", "o", "c", "k", "e", "r">>, <<"k", "u", "b", "e", "c", "t", "l">>,
     <<"d", "o", "c", "k">>, <<"x", "l", "s">>, <<"t", "o", "p">>, <<"l">>,
     <<"o", "n", "l", "y", " ", "t", "o", "p", " ", "1", "0">>}

\* C11: an edit text is a direct replacement exactly when it holds a pipe,
\* && or ; or begins with find, grep, ls, cat, curl, git, docker or kubectl;
\* a direct replacement becomes the pending command with no model call, and
\* any other non-empty edit text makes one model call whose prompt holds the
\* pending command and the edit text.
C11_EditClassification ==
    /\ [](\A e \in EditSamples \cup EditLines : looks_like_command(e) = IsDirectReplacement(e))
    /\ [][state = "Editing" =>
            \/ /\ state' = "AwaitingEdit"
               /\ edit_request' # <<>>
               /\ ~IsDirectReplacement(edit_request')
               /\ model_calls' = model_calls + 1
               /\ final_command' = final_command
               /\ Contains(sent_prompt', final_command)
               /\ Contains(sent_prompt', edit_request')
            \/ /\ state' = "Presenting"
               /\ IsDirectReplacement(edit_request')
               /\ final_command' = edit_request'
               /\ UNCHANGED <<model_calls, sent_prompt>>
            \/ /\ state' \in {"Presenting", "Committed"}
               /\ UNCHANGED <<final_command, edit_request, model_calls, sent_prompt>>]_vars

\* after an edit in natural language went to the model, a direct
\* replacement was typed and is the pending command
C11_Witness ==
    /\ state = "Presenting"
    /\ model_calls = 2
    /\ edit_request = <<"l", "s", " ", "/">>
    /\ final_command = edit_request

\* C12: when the model call made for an edit fails, the edit text as typed
\* becomes the pending command and the confirm prompt is next: the turn
\* goes on, with the window, the history file and the executions as they
\* were.
C12_EditModelFailureFallsBack ==
    /\ []((state = "Presenting" /\ model_result = "Err") => final_command = edit_request)
    /\ [][(state = "AwaitingEdit" /\ model_result' = "Err") =>
            /\ state' = "Presenting"
            /\ final_command' = edit_request
            /\ edit_request' = edit_request
            /\ UNCHANGED <<histVars, windowVars, executed>>]_vars

\* the edit text that fell back was then confirmed and executed
C12_Witness ==
    /\ state = "Committed"
    /\ model_result = "Err"
    /\ edit_request = <<"t", "o", "p">>
    /\ executed = <<edit_request>>

\* C13: the confirm/edit loop is left only on the answers y, yes, n, no
\* and the empty one: a turn becomes committed only by a step from the
\* confirm prompt that read one of them, and the edit prompt always gives
\* control back to the confirm prompt.
C13_LoopLeftOnlyByAnswer ==
    [][/\ (state' = "Committed" /\ state # "Committed") =>
              (state = "Presenting" /\ choice' \in YesAnswers \cup NoAnswers)
       /\ state = "Editing" => state' \in {"Presenting", "AwaitingEdit"}
       /\ state = "AwaitingEdit" => state' = "Presenting"]_vars

-----------------------------------------------------------------------------
(* Properties of the wtf> prompt (Spec)                                    *)

\* the trimmed line is exit or quit in some letter case
IsExitInput(inp) ==
    /\ Len(inp) = 4
    /\ \/ /\ inp[1] \in {"e", "E"} /\ inp[2] \in {"x", "X"}
          /\ inp[3] \in {"i", "I"} /\ inp[4] \in {"t", "T"}
       \/ /\ inp[1] \in {"q", "Q"} /\ inp[2] \in {"u", "U"}
          /\ inp[3] \in {"i", "I"} /\ inp[4] \in {"t", "T"}

\* the trimmed line is empty, or clear or help in some letter case
IsStayInput(inp) ==
    \/ inp = <<>>
    \/ /\ Len(inp) = 5
       /\ inp[1] \in {"c", "C"} /\ inp[2] \in {"l", "L"} /\ inp[3] \in {"e", "E"}
       /\ inp[4] \in {"a", "A"} /\ inp[5] \in {"r", "R"}
    \/ /\ Len(inp) = 4
       /\ inp[1] \in {"h", "H"} /\ inp[2] \in {"e", "E"}
       /\ inp[3] \in {"l", "L"} /\ inp[4] \in {"p", "P"}

\* C14: at the wtf> prompt the lines exit, quit, clear and help, in any
\* letter case, and the empty line make no model call, leave the window
\* and the history file as they are; exit and quit end the session, the
\* others return to the wtf> prompt.
C14_ControlInputsHaveNoEffect ==
    [][\A line \in IdleLines :
         (ReadLine(line) /\ (IsExitInput(Trim(line)) \/ IsStayInput(Trim(line)))) =>
             /\ UNCHANGED <<model_calls, model_result, sent_prompt, windowVars,
                            histVars, append_calls, executed>>
             /\ state' = IF IsExitInput(Trim(line)) THEN "Exited" ELSE "Idle"]_vars

\* help typed in capitals in a session that has a window and a history
C14_Witness ==
    /\ state = "Idle"
    /\ input = <<"H", "E", "L", "P">>
    /\ ncommits >= 1
    /\ hist_lines # <<>>
    /\ model_calls = 0

\* the turns of the window, oldest first, one after the other
Transcript(context) ==
    IF Len(context) = 1 THEN context[1]
    ELSE IF Len(context) = 2 THEN context[1] \o <<NL>> \o context[2]
    ELSE context[1] \o <<NL>> \o context[2] \o <<NL>> \o context[3]

\* C15: the prompt sent for a request is the request itself when the
\* window is empty, and otherwise the turns of the window (three at most,
\* oldest first) followed by the request; the window only ever changes by
\* the commit of a turn whose model call succeeded, so no failed turn is in
\* a transcript.
C15_PromptIsWindowThenRequest ==
    /\ [](state = "AwaitingModel" =>
            /\ Len(conversation_context) <= 3
            /\ sent_prompt =
                 IF conversation_context = <<>> THEN input
                 ELSE <<"Previous conversation:", NL>>
                        \o Transcript(conversation_context)
                        \o <<NL, NL, "New request: ">> \o input)
    /\ [][conversation_context' # conversation_context =>
            /\ state' = "Committed"
            /\ Len(append_calls') = 1
            /\ conversation_context'[Len(conversation_context')]
                   = <<"User: ">> \o input' \o <<NL, "Assistant: ">> \o final_command']_vars

\* a request sent with a window of three turns that are not all the same
C15_Witness ==
    /\ state = "AwaitingModel"
    /\ Len(conversation_context) = 3
    /\ conversation_context[1] # conversation_context[2]
    /\ conversation_context[2] # conversation_context[3]

\* C16: an interrupt at the wtf> prompt returns to it with nothing
\* changed; end of input ends the session; and whenever the session has
\* ended, the readline history has been saved if there is a path for it
\* (there is one exactly when HOME is set).
C16_SessionEndSavesReadlineHistory ==
    /\ [](state \in {"Exited", "Failed"} => rl_saved = home)
    /\ [][/\ ReadLineInterrupted =>
                (state' = "Idle" /\ UNCHANGED <<histVars, windowVars, rl_saved>>)
          /\ ReadLineEof => state' = "Exited"]_vars

\* an environment variable that is set to a value that is not empty
IsSetNonEmpty(opt) == opt # None /\ opt # Some("")

\* a process that has a Config: from_env returned Ok
HasConfig == state \in {"Ready", "Calling"}

\* C17: every Config that from_env produces has an api_key that is not
\* empty, and in an environment where neither key variable holds a value
\* that is not empty (both unset, or set to the empty string) from_env
\* fails and no get_command call is made.
C17_ApiKeyNonEmpty ==
    /\ HasConfig => config.api_key # ""
    /\ (~IsSetNonEmpty(env.WTF_API_KEY) /\ ~IsSetNonEmpty(env.GEMINI_API_KEY))
          => (state \in {"Start", "ConfigError"} /\ dispatched = <<>>)

\* C18: the provider is Gemini exactly when WTF_BASE_URL is unset or
\* empty and OpenAI otherwise; base_url and model of every Config are not
\* empty, each the value of its variable when that is set and not empty
\* and the default of the provider otherwise; and every get_command call
\* of the process goes to the client of that one provider.
C18_ProviderFollowsBaseUrl ==
    HasConfig =>
        \A custom \in {IsSetNonEmpty(env.WTF_BASE_URL)} :
            /\ config.provider = IF custom THEN "OpenAI" ELSE "Gemini"
            /\ config.base_url # ""
            /\ config.model # ""
            /\ config.base_url = IF custom THEN env.WTF_BASE_URL[1]
                                 ELSE "https://generativelanguage.googleapis.com/v1beta"
            /\ config.model = IF IsSetNonEmpty(env.WTF_MODEL) THEN env.WTF_MODEL[1]
                              ELSE IF custom THEN "gpt-4o-mini"
                              ELSE "gemini-2.0-flash"
            /\ \A i \in 1..Len(dispatched) :
                   dispatched[i] = IF custom THEN "get_command_openai"
                                   ELSE "get_command_gemini"

\* two calls of a process with a custom base URL and an empty WTF_MODEL
C18_Witness ==
    /\ state = "Ready"
    /\ Len(dispatched) = 2
    /\ env.WTF_BASE_URL = Some("http://localhost:11434/v1")
    /\ env.WTF_MODEL = Some("")
    /\ config.model = "gpt-4o-mini"

\* the text a response yields, whichever the provider: none when the
\* request failed, the status is not 2xx, the body is not a response,
\* carries an error, or has no first candidate or choice with a first part
FirstText(r) ==
    IF r.transport # "ok" \/ r.status < 200 \/ r.status > 299 THEN None
    ELSE IF ~r.parsed \/ r.error # None THEN None
    ELSE IF r.items = None THEN None
    ELSE IF Len(r.items[1]) = 0 THEN None
    ELSE IF Len(Head(r.items[1])) = 0 THEN None
    ELSE Some(Head(Head(r.items[1])))

\* C19: with either provider, a get_command call returns an error when
\* the request fails, the status is not 2xx, the body carries an error
\* (with or without candidates or choices) or there is no first candidate
\* or choice or (Gemini) no first part; otherwise it returns the command
\* parsed from the text of the first part of the first candidate, or of
\* the first choice.
C19_OutcomeIsFunctionOfResponse ==
    (state = "Ready" /\ dispatched # <<>>) =>
        \A t \in {FirstText(response)} :
            /\ returned.ok = (t # None)
            /\ returned.ok => returned.result = parse_output(t[1])

\* a Gemini call answered with two candidates: the first one is taken
C19_Witness ==
    /\ state = "Ready"
    /\ dispatched = <<"get_command_gemini">>
    /\ response.error = None
    /\ response.items = Some(<< <<RAW_LS>>, <<RAW_DF>> >>)
    /\ returned.ok
    /\ returned.result = parse_output(RAW_LS)
    /\ returned.result # parse_output(RAW_DF)

-----------------------------------------------------------------------------
(* The history append inside a turn (Spec)                                 *)

\* the append_to_history call of the turn returned Err
AppendFailed == append_calls # <<>> /\ ~append_calls[1].ok

\* C20: a history append that fails does not end the turn or the session:
\* the command is presented whatever append_to_history returned, and in
\* a turn whose append failed the confirm prompt goes on as in any other:
\* e opens the edit prompt, and a yes or no answer commits the turn to the
\* window (yes after running the command; a shell that cannot be launched
\* is the one case that ends the session, with or without a failed append).
C20_AppendFailureIsNotFatal ==
    [][/\ (state = "AwaitingModel" /\ model_result' = "Ok") =>
              /\ state' = "Presenting"
              /\ Len(append_calls') = 1
              /\ final_command' = append_calls'[1].command
              /\ UNCHANGED windowVars
       /\ \A line \in ConfirmLines, outcome \in ExecOutcomes :
              (AppendFailed /\ ConfirmRead(line, outcome)) =>
                  /\ choice' \in {<<"e">>, <<"e", "d", "i", "t">>} => state' = "Editing"
                  /\ (choice' \in YesAnswers \cup NoAnswers
                        /\ outcome # "launch_failed") =>
                         /\ state' = "Committed"
                         /\ ncommits' = ncommits + 1
                         /\ conversation_context'[Len(conversation_context')]
                                = <<"User: ">> \o input \o <<NL, "Assistant: ">>
                                    \o final_command
                         /\ choice' \in YesAnswers => executed' = <<final_command>>]_vars

\* a turn whose append failed in the middle of the write, edited, run and
\* committed
C20_Witness ==
    /\ state = "Committed"
    /\ home
    /\ AppendFailed
    /\ append_calls[1].fault.kind = "write"
    /\ edit_request # <<>>
    /\ choice \in YesAnswers
    /\ executed = <<final_command>>
    /\ conversation_context # <<>>

-----------------------------------------------------------------------------
(* Properties of reading and clearing the history (SpecLog, SpecHist)      *)

\* the places of the lines of the history file that parse
GoodLines == {i \in 1..Len(hist_lines) : FromJson(hist_lines[i]).ok}

\* the place of the m-th line that parses
NthGood(m) == CHOOSE i \in GoodLines : Cardinality({g \in GoodLines : g <= i}) = m

\* C21: wtf --history prints the entries of the last min(20, total) lines
\* that parse, oldest first, total counting only the lines that parse; a
\* line that does not parse is skipped, and it hides no line that the
\* program wrote.
C21_ShowsLastParsedEntries ==
    printed # None =>
        \A total \in {Cardinality(GoodLines)} :
            \A k \in {IF total < 20 THEN total ELSE 20} :
                /\ \A i \in 1..Len(hist_lines) :
                       hist_lines[i] = OldLine(i) => i \in GoodLines
                /\ Len(printed[1]) = k
                /\ \A j \in 1..k :
                       printed[1][j] = FromJson(hist_lines[NthGood(total - k + j)]).entry

\* a file of twenty-three lines read: two of them do not parse, one of
\* these among the last twenty lines, and the oldest line that parses is
\* not printed
C21_Witness ==
    /\ printed # None
    /\ Len(hist_lines) = 23
    /\ Cardinality(GoodLines) = 21
    /\ 4 \notin GoodLines
    /\ Len(printed[1]) = 20
    /\ printed[1][1] = FromJson(OldLine(2)).entry
    /\ printed[1][2] = FromJson(OldLine(3)).entry
    /\ printed[1][3] = FromJson(OldLine(5)).entry

\* C22: wtf --clear-history removes the whole file, and returns Ok with
\* nothing changed when there is no file, so clearing twice is clearing
\* once; after it wtf --history has no entry to print; and an append to a
\* file that is absent or empty leaves exactly one line, the entry of the
\* request and command appended.
C22_ClearThenAppendStartsOver ==
    [][/\ \A remove_ok \in BOOLEAN :
              (home /\ CliClearHistory(remove_ok)) =>
                  \A r \in {clear_history(home, hist_exists, hist_lines, remove_ok)} :
                      /\ remove_ok => r.ok
                      /\ ~hist_exists => (r.ok /\ UNCHANGED histVars)
                      /\ r.ok => /\ ~hist_exists'
                                 /\ hist_lines' = <<>>
                                 /\ show_history(hist_exists', hist_lines') = <<>>
                                 /\ clear_history(home, hist_exists', hist_lines', remove_ok)
                                        = [ok |-> TRUE, exists |-> FALSE, lines |-> <<>>]
       /\ (AppendReturnedOk /\ (~hist_exists \/ hist_lines = <<>>)) =>
              /\ hist_exists'
              /\ Len(hist_lines') = 1
              /\ show_history(hist_exists', hist_lines')
                     = <<[timestamp |-> now', prompt |-> <<"d", NL, QUOTE, BSLASH>>,
                          command |-> <<"d", "f">>]>>
              /\ input' = REQ_QUOTED
              /\ final_command' = <<ESC, "[", "1", "m", "d", "f">>]_vars

\* the second run removed the history file and the third run appended
C22_Witness ==
    /\ events = 2
    /\ append_calls # <<>>
    /\ append_calls[1].ok
    /\ Len(hist_lines) = 1
    /\ hist_lines[1] # OldLine(1)
    /\ now = 1

-----------------------------------------------------------------------------
(* Properties of the output sanitizer (SpecText)                           *)

\* C23: strip_ansi_codes is idempotent: applied to its own result it
\* returns that result, for every text (escape sequences nested, adjacent,
\* unterminated, ESC alone).
C23_StripAnsiIdempotent ==
    /\ Len(stripped) = 2 => stripped[2] = stripped[1]
    /\ Len(stripped) >= 1 => \A i \in 1..Len(stripped[1]) : stripped[1][i] # ESC

\* ESC alone right before a complete sequence, stripped twice
C23_Witness ==
    /\ model_text = <<ESC, ESC, "[", "m", "m">>
    /\ stripped = << <<"m">>, <<"m">> >>

\* C24: a text with the separator ### is split at its first occurrence
\* only: the command is the text before it, trimmed, and the explanation
\* all of the rest, trimmed, later separators included; a text without
\* the separator has no explanation and its command is the text trimmed.
C24_SplitsOnFirstSeparator ==
    command_result # None =>
        \A r \in {command_result[1]} :
            IF \E i \in 1..(Len(model_text) - 2) : SubSeq(model_text, i, i + 2) = <<"#", "#", "#">>
            THEN \E i \in 1..(Len(model_text) - 2) :
                    /\ SubSeq(model_text, i, i + 2) = <<"#", "#", "#">>
                    /\ \A j \in 1..(i - 1) : SubSeq(model_text, j, j + 2) # <<"#", "#", "#">>
                    /\ r.command = Trim(SubSeq(model_text, 1, i - 1))
                    /\ r.has_explanation
                    /\ r.explanation = Trim(SubSeq(model_text, i + 3, Len(model_text)))
            ELSE /\ ~r.has_explanation
                 /\ r.command = Trim(model_text)

\* a text with two separators: the second one is in the explanation
C24_Witness ==
    /\ model_text = <<"a", " ", "#", "#", "#", "#", "#">>
    /\ command_result = Some([command |-> <<"a">>, has_explanation |-> TRUE,
                              explanation |-> <<"#", "#">>])

\* C25: for a command in a markdown code fence, with no language tag or
\* with any, the command kept is the content of the fence, trimmed: no
\* fence marker and no piece of the tag is left in it.
C25_FenceAndTagRemoved ==
    \A tag \in FenceTags :
        (command_result # None /\ model_text = Fenced(tag, <<"l", "s">>))
            => final_command = <<"l", "s">>

-----------------------------------------------------------------------------
(* Properties of the request sent to the provider (SpecProvider)           *)

\* the text is not empty
NonEmptyText(t) == t # ""

\* the context harvested from the surroundings: the directory listing and
\* the repository status, those that are not empty; nothing when opted out
Harvest(a) ==
    IF a.opt_out THEN <<>> ELSE SelectSeq(<<a.listing, a.status>>, NonEmptyText)

\* C26: in every call the harvested context (directory listing and
\* repository status), when it is not empty and not opted out, is appended
\* to the system prompt and never to the user's prompt; when it is empty or
\* opted out the system prompt is the base prompt unmodified.
C26_HarvestGoesToSystemPrompt ==
    state = "Calling" =>
        /\ \E base \in {"SYSTEM_PROMPT", "SYSTEM_PROMPT_EXPLAIN"} :
               request.system = <<base>> \o Harvest(ambient)
        /\ request.user = <<"d", "f">>

-----------------------------------------------------------------------------
(* Properties of the turns of a session, continued (Spec)                  *)

\* the turns of the session whose request the model has answered with a
\* command: those committed, and the one under way or ended by an error
\* after its command was presented
SuccessfulTurns ==
    ncommits + (IF state \in {"Presenting", "Editing", "AwaitingEdit", "Failed"}
                THEN 1 ELSE 0)

\* the step is an append_to_history call that returns Err
AppendFails == Len(append_calls') > Len(append_calls) /\ ~append_calls'[1].ok

C28_PresentedTurnReturnsToIdle == (state = "Presenting") ~> (state = "Idle")

\* C29: after every edit step that completes (the edit taken as the
\* command, the model's answer to the edit, the model's answer being empty,
\* the model call failing) the pending command is not empty: for an
\* empty answer and for a failure it is the text of the edit, which is
\* never empty.
C29_EditLeavesCommandNonEmpty ==
    /\ [](state = "AwaitingEdit" => edit_request # <<>>)
    /\ [][/\ \A line \in EditLines :
                 (EditRead(line) /\ Trim(line) # <<>> /\ state' = "Presenting") =>
                     (final_command' = Trim(line) /\ final_command' # <<>>)
          /\ (state = "AwaitingEdit" /\ state' = "Presenting") =>
                 /\ final_command' # <<>>
                 /\ model_result' = "Err" => final_command' = edit_request
          /\ \A text \in EditTexts :
                 (EditModelOk(text) /\ StripFences(parse_output(text).command) = <<>>) =>
                     final_command' = edit_request]_vars

\* the model answered an edit with an empty command: the edit is the command
C29_Witness ==
    /\ state = "Presenting"
    /\ model_calls = 2
    /\ model_result = "Ok"
    /\ edit_request = <<"t", "o", "p">>
    /\ final_command = edit_request

\* C30: in the confirm/edit loop an answer that is not recognized, an
\* empty edit, and an edit cancelled by an interrupt or end of input each
\* leave the pending command, the history file and the window as they
\* were, make no model call and return to the confirm prompt.
C30_NoOpInputsChangeNothing ==
    [][/\ \A line \in ConfirmLines, outcome \in ExecOutcomes :
              (ConfirmRead(line, outcome)
                 /\ choice' \notin YesAnswers \cup NoAnswers
                                     \cup {<<"e">>, <<"e", "d", "i", "t">>}) =>
                  /\ state' = "Presenting"
                  /\ UNCHANGED <<final_command, histVars, windowVars, model_calls,
                                 sent_prompt, executed, append_calls>>
       /\ \A line \in EditLines :
              (EditRead(line) /\ Trim(line) = <<>>) =>
                  /\ state' = "Presenting"
                  /\ UNCHANGED <<final_command, histVars, windowVars, model_calls,
                                 sent_prompt, executed, append_calls>>
       /\ EditCancelled =>
              /\ state' = "Presenting"
              /\ UNCHANGED <<final_command, histVars, windowVars, model_calls,
                             sent_prompt, executed, append_calls>>]_vars

\* an answer that is not recognized, given after an edit of the command in
\* a later turn of a session with a history
C30_Witness ==
    /\ state = "Presenting"
    /\ choice = <<"x">>
    /\ edit_request # <<>>
    /\ final_command = edit_request
    /\ ncommits >= 1
    /\ hist_lines # <<>>

====
